---- MODULE Spec2Model ----
(***************************************************************************)
(* Blog-post API backend (thakkaryash94/mern-server-example): the three    *)
(* server variants of the repository, their identity resolution, their     *)
(* mutation gates and the store calls of every resolver.                   *)
(*                                                                         *)
(*   "legacy"  : single-file server, getUser(req) called by each resolver  *)
(*               (jwt.verify on the raw authorization header)              *)
(*   "index"   : src/index.js, express-jwt middleware + inline resolvers   *)
(*   "modular" : src/resolvers.js, same resolver shape (req.user), with an *)
(*               updatePost resolver and no gate on likePost               *)
(*                                                                         *)
(* The document store answers every call (it is an external collaborator   *)
(* with the contract of the driver); every await is a point where other    *)
(* requests may run: a request is one action for context (which awaits the *)
(* connection), one per store call of its resolver, and one per author a   *)
(* Post.author field resolver looks up.                                    *)
(***************************************************************************)
EXTENDS Integers, Sequences, FiniteSets, Bags, TLC

\* ------------------------------------------------------------- bounds
MaxUsers == 2
MaxPosts == 2
MaxLikes == 2
MaxRequests == 2
MaxClock == 1
MaxClients == 3

\* ------------------------------------------------ program constants
saltRounds == 10

JWT_SECRET == "JWT_SECRET"

Variants  == {"legacy", "index", "modular"}
UserNames == {"ann", "bob"}
Passwords == {"pw1", "pw2"}
\* PostDataInput: title and content are both optional fields
PostData  == {[title |-> "T1", content |-> "C1"], [title |-> "T2"]}
PostIds   == 1..MaxPosts

\* JavaScript's undefined and null, as values of their own
Undefined == [undefined |-> TRUE]
Null      == [null |-> TRUE]

\* if (obj.field): an ObjectID string is truthy, a missing field is not
Has(obj, f) == f \in DOMAIN obj

\* ObjectID(obj.field): the id the field holds; ObjectID(undefined) generates
\* a new id, which is the _id of no document (written 0)
ObjectID(obj, f) == IF f \in DOMAIN obj THEN obj[f] ELSE 0

\* { ...a, ...b }: the fields of b override those of a
Spread(a, b) == b @@ a

\* ------------------------------------------------- what a resolver yields
Data(v)     == [kind |-> "data", value |-> v]
Thrown(msg) == [kind |-> "error", message |-> msg]
\* a resolver that falls off its end, or a field with no resolver
Nothing     == [kind |-> "null"]
\* the request was answered by the middleware's error handler
Unauthorized == [kind |-> "http", status |-> 401]

\* Reading property f of null: a TypeError with the engine's text (V8 as of
\* Node 16; the repository pins no engine)
NullRead(f) == "Cannot read properties of null (reading '" \o f \o "')"

\* data with one field nulled because its field resolver threw
Partial(v, msg) == [kind |-> "partial", value |-> v, message |-> msg]

Envelope(ok, msg) == [success |-> ok, message |-> msg]

\* ------------------------------------------------------------- crypto
\* bcrypt.hash(plaintext, rounds): a one-way string that is not the plaintext
bcryptHash(plain, rounds) == [scheme |-> "bcrypt", cost |-> rounds, of |-> plain]

bcryptCompare(plain, hashed) == hashed = bcryptHash(plain, hashed.cost)

\* jwt.sign(claims, secret, {expiresIn}): expiresIn is "none" or "1d"
jwtSign(claims, secret, expiresIn) ==
  [kind |-> "jwt", claims |-> claims, sig |-> secret, exp |-> expiresIn]

NoCredential == [kind |-> "none"]

\* A token with an expiry, once that time has passed
Outlive(tok) == [tok EXCEPT !.exp = "past"]

\* jwt.verify(token, secret): the claims, or a throw with jsonwebtoken's message
jwtVerify(tok, secret) ==
  IF tok.kind = "none" THEN [threw |-> TRUE, message |-> "jwt must be provided"]
  ELSE IF tok.sig # secret THEN [threw |-> TRUE, message |-> "invalid signature"]
  ELSE IF tok.exp = "past" THEN [threw |-> TRUE, message |-> "jwt expired"]
  ELSE [threw |-> FALSE, value |-> tok.claims]

\* error.message.indexOf('jwt') >= 0
MentionsJwt(msg) == msg \in {"jwt must be provided", "jwt expired", "jwt malformed"}

\* ------------------------------------------------- the document store
\* users: documents in insertion (natural) order; posts: a set of documents
\* with distinct _id.  The store assigns _id: the next unused number.

\* collection.findOne({userName}): the first match in natural order
findOneByUserName(U, name) ==
  IF \E i \in 1..Len(U) : U[i].userName = name
  THEN U[CHOOSE i \in 1..Len(U) : U[i].userName = name
                                   /\ \A j \in 1..(i-1) : U[j].userName # name]
  ELSE Null

\* collection.findOne({_id})
findOneUserById(U, id) ==
  IF \E i \in 1..Len(U) : U[i]._id = id
  THEN U[CHOOSE i \in 1..Len(U) : U[i]._id = id]
  ELSE Null

findOnePostById(P, id) ==
  IF \E d \in P : d._id = id THEN CHOOSE d \in P : d._id = id ELSE Null

\* {projection: {...}}: only the named fields of the document
Project(doc, fields) == [f \in (DOMAIN doc) \cap fields |-> doc[f]]

\* users.insertOne(doc)
insertOneUser(U, doc) ==
  LET id == Len(U) + 1
  IN [users |-> Append(U, Spread(doc, [_id |-> id])), insertedId |-> id, insertedCount |-> 1]

\* posts.insertOne(doc); seq is the number of posts inserted so far
insertOnePost(P, seq, doc) ==
  LET id == seq + 1
  IN [posts |-> P \cup {Spread(doc, [_id |-> id])}, insertedId |-> id, insertedCount |-> 1]

\* Mutant of deleteOne: the filter is ignored, the first document goes
deleteOne_anyDocument(P, id) ==
  LET hit == {d \in P : \A e \in P : d._id <= e._id}
  IN [posts |-> P \ hit, deletedCount |-> Cardinality(hit)]

\* posts.deleteOne({_id})
deleteOne(P, id) ==
  LET hit == {d \in P : d._id = id}
  IN [posts |-> P \ hit, deletedCount |-> Cardinality(hit)]

\* Mutant of findOneAndUpdateInc: {$set: {likes: 1}} in place of $inc, so
\* that a second like is lost
findOneAndUpdateInc_set(P, id, returnOriginal) ==
  LET d == findOnePostById(P, id)
  IN IF d = Null THEN [posts |-> P, value |-> Null]
     ELSE LET e == [d EXCEPT !.likes = 1]
          IN [posts |-> (P \ {d}) \cup {e}, value |-> IF returnOriginal THEN d ELSE e]

\* posts.findOneAndUpdate({_id}, {$inc: {likes: 1}}, {returnOriginal})
\* one atomic store operation; the driver's default is returnOriginal: true
findOneAndUpdateInc(P, id, returnOriginal) ==
  LET d == findOnePostById(P, id)
  IN IF d = Null THEN [posts |-> P, value |-> Null]
     ELSE LET e == [d EXCEPT !.likes = @ + 1]
          IN [posts |-> (P \ {d}) \cup {e}, value |-> IF returnOriginal THEN d ELSE e]

\* posts.findOneAndUpdate({_id}, {$set: data}, {returnOriginal})
findOneAndUpdateSet(P, id, data, returnOriginal) ==
  LET d == findOnePostById(P, id)
  IN IF d = Null THEN [posts |-> P, value |-> Null]
     ELSE LET e == Spread(d, data)
          IN [posts |-> (P \ {d}) \cup {e}, value |-> IF returnOriginal THEN d ELSE e]

\* ------------------------------------------------ identity resolution
\* legacy: getUser(req), called inside each resolver's try block
getUser(req) == jwtVerify(req.authorization, JWT_SECRET)

\* index/modular: expressJwt({secret, algorithms, credentialsRequired: false})
\* no token: the request goes on with req.user undefined; a token that does
\* not verify: next(UnauthorizedError), the resolvers never run
expressJwt(cred) ==
  IF cred.kind = "none" THEN [admitted |-> TRUE, user |-> Undefined]
  ELSE LET v == jwtVerify(cred, JWT_SECRET)
       IN IF v.threw THEN [admitted |-> FALSE, user |-> Undefined]
          ELSE [admitted |-> TRUE, user |-> v.value]

\* The request as the resolvers get it (context: {req, mongo})
context(variant, cred) ==
  IF variant = "legacy"
  THEN [admitted |-> TRUE, req |-> [authorization |-> cred, user |-> Undefined]]
  ELSE LET m == expressJwt(cred)
       IN [admitted |-> m.admitted, req |-> [authorization |-> cred, user |-> m.user]]

\* ------------------------------------------------------------ queries
currentUser_legacy(req, U) ==
  LET userObj == getUser(req)
  IN IF userObj.threw THEN [resp |-> Thrown("Invalid auth token!"), calls |-> 0]
     ELSE IF Has(userObj.value, "userId")
     THEN LET user == findOneUserById(U, ObjectID(userObj.value, "userId"))
          IN IF user = Null
             THEN [resp |-> Thrown("Invalid auth token!"), calls |-> 1]
             ELSE [resp |-> Data([id |-> user._id, userName |-> user.userName]), calls |-> 1]
     ELSE [resp |-> Thrown("Invalid auth token!"), calls |-> 0]

\* index.js: the try block declares its own `const user` (line 107), so the
\* read of user.id on line 103 is a read of that binding before its
\* initialisation: a ReferenceError, which the catch turns into the throw
currentUser_index(req, U) ==
  LET read == [threw |-> TRUE, message |-> "Cannot access 'user' before initialization"]
  IN IF read.threw THEN [resp |-> Thrown("Invalid auth token!"), calls |-> 0]
     ELSE [resp |-> Thrown("Invalid user id!"), calls |-> 0]

\* resolvers.js: the catch returns the error, which GraphQL reports as the
\* field's error
currentUser_modular(req, U) ==
  IF req.user = Undefined THEN [resp |-> Thrown("Invalid user id!"), calls |-> 0]
  ELSE LET cu == findOneUserById(U, ObjectID(req.user, "id"))
       IN IF cu = Null
          THEN [resp |-> Thrown("Invalid user id!"), calls |-> 1]
          ELSE [resp |-> Data([id |-> cu._id, userName |-> cu.userName]), calls |-> 1]

currentUser(variant, req, U) ==
  CASE variant = "legacy"  -> currentUser_legacy(req, U)
    [] variant = "index"   -> currentUser_index(req, U)
    [] variant = "modular" -> currentUser_modular(req, U)

\* Query.post: the same in the three variants; reads no identity
post(P, id) ==
  LET p == findOnePostById(P, id)
  IN IF p = Null THEN [resp |-> Thrown("Invalid post id!"), calls |-> 1]
     ELSE [resp |-> Data(Spread(p, [id |-> p._id])), calls |-> 1]

\* The documents of P in every order
Orderings(P) ==
  {s \in [1..Cardinality(P) -> P] : \A i, j \in 1..Cardinality(P) : i # j => s[i] # s[j]}

\* find({}): the natural order, which is the order of insertion (of _id)
Natural(P) ==
  {s \in Orderings(P) : \A i, j \in 1..Cardinality(P) : i < j => s[i]._id < s[j]._id}

\* find({}).sort({createdAt: -1}): latest first; the store promises no order
\* among documents with one createdAt
SortedByCreatedAtDesc(P) ==
  {s \in Orderings(P) : \A i, j \in 1..Cardinality(P) : i < j => s[i].createdAt >= s[j].createdAt}

\* cursor options {skip, limit}
Window(s, skip, limit) ==
  LET last == IF skip + limit < Len(s) THEN skip + limit ELSE Len(s)
  IN SubSeq(s, skip + 1, last)

WithId(s) == [i \in 1..Len(s) |-> Spread(s[i], [id |-> s[i]._id])]

\* Query.posts of index.js and resolvers.js, over the documents as the
\* cursor yields them; offset and limit of 0 (or not given) are falsy, and
\* leave the defaults 0 and 10
posts_index(cursor, offset, limit) ==
  [resp |-> Data(WithId(Window(cursor, offset, IF limit = 0 THEN 10 ELSE limit))),
   calls |-> 1]

\* Query.posts of the legacy server: where.skip, where.take
posts_legacy(cursor, skip, take) ==
  [resp |-> Data(WithId(Window(cursor, skip, IF take = 0 THEN 10 ELSE take))),
   calls |-> 1]

\* The orders in which find may hand the documents to Query.posts
Cursors(variant, P) ==
  IF variant = "legacy" THEN Natural(P) ELSE SortedByCreatedAtDesc(P)

postsQuery(variant, cursor, offset, limit) ==
  IF variant = "legacy" THEN posts_legacy(cursor, offset, limit)
  ELSE posts_index(cursor, offset, limit)

\* Post.author (index.js, resolvers.js): findOne of the parent's author, and
\* user._id of null throws.  The legacy server has no such resolver.
PostAuthor(parent, U) ==
  LET user == findOneUserById(U, ObjectID(parent, "author"))
  IN IF user = Null THEN [threw |-> TRUE, message |-> NullRead("_id")]
     ELSE [threw |-> FALSE, value |-> [id |-> user._id, userName |-> user.userName]]

HasAuthorResolver(variant) == variant # "legacy"

\* ---------------------------------------------------------- mutations
\* Every post resolver yields [resp, posts, calls]: its result, the posts
\* collection after its store call, and the number of store calls it issued.
Gate == Data(Envelope(FALSE, "User not found!"))

\* Mutant of NewPost: the author is a freshly generated id (ObjectID() of
\* nothing), which is the _id of no account
NewPost_freshAuthor(data, author, createdAt, updatedAt) ==
  Spread(data, [createdAt |-> createdAt, updatedAt |-> updatedAt, author |-> 0, likes |-> 0])

\* The document createPost hands to insertOne; createdAt and updatedAt are
\* two readings of the clock (new Date(), twice), the second never earlier
NewPost(data, author, createdAt, updatedAt) ==
  Spread(data, [createdAt |-> createdAt, updatedAt |-> updatedAt, author |-> author, likes |-> 0])

\* createPost up to its call of insertOne: the gate, then the document, built
\* with the clock as read at the call.  [done, resp, doc, calls]; done = FALSE:
\* insertOne(doc) is issued and the resolver awaits it
createPost_legacy(req, data, createdAt, updatedAt) ==
  LET userObj == getUser(req)
  IN IF userObj.threw
     THEN [done |-> TRUE, resp |-> Data(Envelope(FALSE, "Something went wrong!")),
           doc |-> Null, calls |-> 0]
     ELSE IF Has(userObj.value, "userId")
     THEN [done |-> FALSE, resp |-> Nothing, calls |-> 1,
           doc |-> NewPost(data, ObjectID(userObj.value, "userId"), createdAt, updatedAt)]
     ELSE [done |-> TRUE, resp |-> Gate, doc |-> Null, calls |-> 0]

\* index.js and resolvers.js: the same text
createPost_index(req, data, createdAt, updatedAt) ==
  IF req.user = Undefined
  THEN [done |-> TRUE, resp |-> Gate, doc |-> Null, calls |-> 0]
  ELSE [done |-> FALSE, resp |-> Nothing, calls |-> 1,
        doc |-> NewPost(data, ObjectID(req.user, "id"), createdAt, updatedAt)]

createPost(variant, req, data, createdAt, updatedAt) ==
  IF variant = "legacy" THEN createPost_legacy(req, data, createdAt, updatedAt)
  ELSE createPost_index(req, data, createdAt, updatedAt)

\* createPost resumed with insertOne's result: the store has inserted doc
\* under the next _id; insertedCount decides whether findOne follows
createPost_insertOne(P, seq, doc) ==
  LET newPost == insertOnePost(P, seq, doc)
  IN IF newPost.insertedCount = 1
     THEN [done |-> FALSE, resp |-> Nothing,
           posts |-> newPost.posts, insertedId |-> newPost.insertedId]
     ELSE [done |-> TRUE, resp |-> Data(Envelope(FALSE, "Post not found!")),
           posts |-> newPost.posts, insertedId |-> 0]

\* createPost after insertOne: findOne({_id: insertedId}) and the envelope;
\* reading post._id of null throws inside the try block
createPost_findOne(P, insertedId) ==
  LET p == findOnePostById(P, insertedId)
  IN IF p = Null THEN Data(Envelope(FALSE, "Something went wrong!"))
     ELSE Data(Spread(p, [id |-> p._id, success |-> TRUE,
                          message |-> "Post created successfully!"]))

DeleteEnvelope(r) ==
  IF r.deletedCount = 1 THEN Data(Envelope(TRUE, "Post delete successfully!"))
  ELSE Data(Envelope(FALSE, "Post does not exist!"))

deletePost_legacy(req, id, P) ==
  LET userObj == getUser(req)
  IN IF userObj.threw
     THEN [resp |-> IF MentionsJwt(userObj.message)
                    THEN Data(Envelope(FALSE, "Invalid Auth token!"))
                    ELSE Data(Envelope(FALSE, "Something went wrong!")),
           posts |-> P, calls |-> 0]
     ELSE IF Has(userObj.value, "userId")
     THEN LET r == deleteOne(P, id)
          IN [resp |-> DeleteEnvelope(r), posts |-> r.posts, calls |-> 1]
     ELSE [resp |-> Gate, posts |-> P, calls |-> 0]

deletePost_index(req, id, P) ==
  IF req.user = Undefined THEN [resp |-> Gate, posts |-> P, calls |-> 0]
  ELSE LET r == deleteOne(P, id)
       IN [resp |-> DeleteEnvelope(r), posts |-> r.posts, calls |-> 1]

deletePost(variant, req, id, P) ==
  IF variant = "legacy" THEN deletePost_legacy(req, id, P)
  ELSE deletePost_index(req, id, P)

UpdatedEnvelope(u, msg) ==
  IF u.value # Null
  THEN Data(Spread(u.value, [id |-> u.value._id, success |-> TRUE, message |-> msg]))
  ELSE Data(Envelope(FALSE, "Post does not exist!"))

\* legacy: findOneAndUpdate without options (the original document comes
\* back); a verified token without userId falls off the end of the resolver
likePost_legacy(req, id, P) ==
  LET userObj == getUser(req)
  IN IF userObj.threw
     THEN [resp |-> Data(Envelope(FALSE, "Something went wrong!")), posts |-> P, calls |-> 0]
     ELSE IF Has(userObj.value, "userId")
     THEN LET u == findOneAndUpdateInc(P, id, TRUE)
          IN [resp |-> UpdatedEnvelope(u, "Post liked successfully!"),
              posts |-> u.posts, calls |-> 1]
     ELSE [resp |-> Nothing, posts |-> P, calls |-> 0]

likePost_index(req, id, P) ==
  IF req.user = Undefined THEN [resp |-> Gate, posts |-> P, calls |-> 0]
  ELSE LET u == findOneAndUpdateInc(P, id, FALSE)
       IN [resp |-> UpdatedEnvelope(u, "Post liked successfully!"),
           posts |-> u.posts, calls |-> 1]

\* resolvers.js: no check of req.user
likePost_modular(req, id, P) ==
  LET u == findOneAndUpdateInc(P, id, FALSE)
  IN [resp |-> UpdatedEnvelope(u, "Post liked successfully!"),
      posts |-> u.posts, calls |-> 1]

likePost(variant, req, id, P) ==
  CASE variant = "legacy"  -> likePost_legacy(req, id, P)
    [] variant = "index"   -> likePost_index(req, id, P)
    [] variant = "modular" -> likePost_modular(req, id, P)

updatePost_modular(req, id, data, P) ==
  IF req.user = Undefined THEN [resp |-> Gate, posts |-> P, calls |-> 0]
  ELSE LET u == findOneAndUpdateSet(P, id, data, FALSE)
       IN [resp |-> UpdatedEnvelope(u, "Post updated successfully!"),
           posts |-> u.posts, calls |-> 1]

\* typeDefs, type Mutation: the fields a variant's schema declares (the
\* legacy schema names its sign-in mutation logIn)
Declares(variant, field) ==
  field \in {"createPost", "updatePost", "deletePost", "likePost", "signUp"}
              \cup (IF variant = "legacy" THEN {"logIn"} ELSE {"signIn"})

\* resolvers, Mutation: the fields a variant defines a resolver for
Resolves(variant, field) ==
  field \in {"createPost", "deletePost", "likePost", "signUp"}
              \cup (IF variant = "legacy" THEN {"logIn"} ELSE {"signIn"})
              \cup (IF variant = "modular" THEN {"updatePost"} ELSE {})

\* A variant exposes the mutations of the schema it hands to ApolloServer:
\* a declared field is callable whether or not a resolver is defined for it
Exposes(variant, field) == Declares(variant, field)

\* legacy and index.js declare Mutation.updatePost in the schema and define
\* no resolver for it: the field resolves to null
updatePost(variant, req, id, data, P) ==
  IF Resolves(variant, "updatePost") THEN updatePost_modular(req, id, data, P)
  ELSE [resp |-> Nothing, posts |-> P, calls |-> 0]

\* The claims of the tokens a variant signs: {userId} in legacy, {id} otherwise
Claims(variant, id) == IF variant = "legacy" THEN [userId |-> id] ELSE [id |-> id]

\* Mutant of signUp_findOne: the existence check is skipped
signUp_findOne_unchecked(U, name) == [done |-> FALSE, resp |-> Nothing]

\* signUp: findOne({userName}); a non-null user ends the call
signUp_findOne(U, name) ==
  LET user == findOneByUserName(U, name)
  IN IF user = Null THEN [done |-> FALSE, resp |-> Nothing]
     ELSE [done |-> TRUE, resp |-> Data(Envelope(FALSE, "Username already exists!"))]

\* signUp after findOne returned null: bcrypt.hash, insertOne, jwt.sign
signUp_insertOne(variant, U, data) ==
  LET hash == bcryptHash(data.password, saltRounds)
      newUser == insertOneUser(U, [userName |-> data.userName, password |-> hash])
      token == jwtSign(Claims(variant, newUser.insertedId), JWT_SECRET, "none")
  IN IF newUser.insertedCount = 1
     THEN [users |-> newUser.users,
           resp |-> IF variant = "legacy"
                    THEN Data([token |-> token, success |-> TRUE])
                    ELSE Data([token |-> token, success |-> TRUE,
                               message |-> "User created successfully!"])]
     ELSE [users |-> newUser.users, resp |-> Data(Envelope(FALSE, "Something went wrong!"))]

\* signIn (logIn in legacy): user.password of null throws, outside any try
signIn(variant, U, data) ==
  LET found == findOneByUserName(U, data.userName)
  IN IF found = Null THEN Thrown(NullRead("password"))
     ELSE LET user == Project(found, {"_id", "password"})
          IN IF bcryptCompare(data.password, user.password)
             THEN IF variant = "legacy"
                  THEN Data([token |-> jwtSign(Claims(variant, user._id), JWT_SECRET, "none"),
                             success |-> TRUE])
                  ELSE Data([token |-> jwtSign(Claims(variant, user._id), JWT_SECRET, "1d"),
                             success |-> TRUE, message |-> "User signed in successfully!"])
             ELSE Data(Envelope(FALSE, "Invalid username or password!"))

\* -------------------------------------------------------------- state
VARIABLES
  variant,   \* which server of the repository is running
  users,     \* the users collection
  posts,     \* the posts collection
  postSeq,   \* number of posts inserted so far (the store's id source)
  flight,    \* bag of requests under way, each suspended at an await
  out,       \* the last answer sent: the operation and what it answered
  likeAcks,  \* per post id: likePost calls that returned success: true
  clients,   \* store connections opened by context and not closed
  clock      \* the time new Date() reads

vars == <<variant, users, posts, postSeq, flight, out, likeAcks, clients, clock>>

\* The tokens signUp and signIn have handed out for the accounts of U
Issued(v, U) ==
  {jwtSign(Claims(v, i), JWT_SECRET, e) :
     i \in 1..Len(U), e \in (IF v = "legacy" THEN {"none"} ELSE {"none", "1d"})}

\* A token signed by someone who does not know the secret
Forged(v) == jwtSign(Claims(v, 1), "not the secret", "none")

\* What a request may carry: nothing, an issued token, a token with an expiry
\* presented after it, or a forged one
Credentials(v, U) ==
  {NoCredential, Forged(v)} \cup Issued(v, U)
    \cup {Outlive(t) : t \in {i \in Issued(v, U) : i.exp = "1d"}}

Step(op, resp) == [op |-> op, resp |-> resp]

InFlight(pc) == {r \in BagToSet(flight) : r.pc = pc}

Admitted(cred) == context(variant, cred).admitted
Req(cred) == context(variant, cred).req

\* context({req}): new MongoClient(DB_URL) and await client.connect(), once
\* per request that reaches Apollo; the client is handed to no one and no
\* code closes it
connect(open) == open + 1

\* A suspended request goes on: f leaves the bag, the records of g enter it
Resume(f, g) == flight' = (flight (-) SetToBag({f})) (+) SetToBag(g)

\* A request suspended in Post.author: items are the parents, authors the
\* values resolved so far (null where the field resolver threw), message the
\* first error thrown ("" if none)
AuthorPending(op, items, many, authors, message) ==
  [pc |-> "Post.author", op |-> op, items |-> items, many |-> many,
   authors |-> authors, message |-> message]

\* What GraphQL answers once the author of every parent is resolved
Resolved(items, many, authors, message) ==
  LET full == [i \in 1..Len(items) |->
                 [f \in (DOMAIN items[i]) \cup {"author"} |->
                    IF f = "author" THEN authors[i] ELSE items[i][f]]]
      v == IF many THEN full ELSE full[1]
  IN IF message = "" THEN Data(v) ELSE Partial(v, message)

\* The resolver of request f has returned resp for field op.  If the result
\* is a Post (or a non-empty list of them), the query selects author and the
\* variant has a Post.author resolver, GraphQL calls it next, which is another
\* await; otherwise the request is answered.
Return(f, op, resp, many, author) ==
  LET items == IF many THEN resp.value ELSE <<resp.value>>
  IN IF author /\ HasAuthorResolver(variant) /\ resp.kind = "data" /\ Len(items) > 0
     THEN /\ Resume(f, {AuthorPending(op, items, many, <<>>, "")})
          /\ out' = out
     ELSE /\ Resume(f, {})
          /\ out' = Step(op, resp)

\* express-jwt answers a request whose token does not verify, whatever the
\* operation it asks for; neither context nor a resolver runs
Rejected ==
  \E cred \in Credentials(variant, users) :
    /\ ~Admitted(cred)
    /\ out' = Step("request", Unauthorized)
    /\ UNCHANGED <<variant, users, posts, postSeq, flight, likeAcks, clients, clock>>

\* A request passes the middleware; context opens a connection and awaits
\* client.connect(), before any resolver runs.  The operation and its
\* arguments are in the request body, which nothing reads until then.
Context ==
  \E cred \in Credentials(variant, users) :
    /\ Admitted(cred)
    /\ clients < MaxClients
    /\ BagCardinality(flight) < MaxRequests
    /\ clients' = connect(clients)
    /\ flight' = flight (+) SetToBag({[pc |-> "resolver", cred |-> cred]})
    /\ UNCHANGED <<variant, users, posts, postSeq, out, likeAcks, clock>>

CurrentUser ==
  \E f \in InFlight("resolver") :
    /\ Resume(f, {})
    /\ out' = Step("currentUser", currentUser(variant, Req(f.cred), users).resp)
    /\ UNCHANGED <<variant, users, posts, postSeq, likeAcks, clients, clock>>

Post ==
  \E f \in InFlight("resolver"), id \in PostIds, author \in BOOLEAN :
    /\ Return(f, "post", post(posts, id).resp, FALSE, author)
    /\ UNCHANGED <<variant, users, posts, postSeq, likeAcks, clients, clock>>

Posts ==
  \E f \in InFlight("resolver"), cursor \in Cursors(variant, posts),
     offset \in 0..1, limit \in 0..1, author \in BOOLEAN :
    /\ Return(f, "posts", postsQuery(variant, cursor, offset, limit).resp, TRUE, author)
    /\ UNCHANGED <<variant, users, posts, postSeq, likeAcks, clients, clock>>

\* Post.author of the next parent: users.findOne, then the field's value or
\* null with the error; after the last parent the request is answered
PostAuthorField ==
  \E f \in InFlight("Post.author") :
    LET a == PostAuthor(f.items[Len(f.authors) + 1], users)
        authors == Append(f.authors, IF a.threw THEN Null ELSE a.value)
        message == IF f.message = "" /\ a.threw THEN a.message ELSE f.message
    IN /\ IF Len(authors) < Len(f.items)
          THEN /\ Resume(f, {AuthorPending(f.op, f.items, f.many, authors, message)})
               /\ out' = out
          ELSE /\ Resume(f, {})
               /\ out' = Step(f.op, Resolved(f.items, f.many, authors, message))
       /\ UNCHANGED <<variant, users, posts, postSeq, likeAcks, clients, clock>>

\* Time passes
Tick ==
  /\ clock < MaxClock
  /\ clock' = clock + 1
  /\ UNCHANGED <<variant, users, posts, postSeq, flight, out, likeAcks, clients>>

\* createPost to its await on insertOne: the resolver reads the clock twice
\* (it may move between the readings) and hands the document to the store
CreatePost ==
  \E f \in InFlight("resolver"), data \in PostData, author \in BOOLEAN,
     later \in clock..MaxClock :
    /\ LET r == createPost(variant, Req(f.cred), data, clock, later)
       IN /\ r.done \/ postSeq + Cardinality(InFlight("createPost.insertOne")) < MaxPosts
          /\ clock' = IF r.done THEN clock ELSE later
          /\ IF r.done THEN Return(f, "createPost", r.resp, FALSE, author)
             ELSE /\ Resume(f, {[pc |-> "createPost.insertOne", cred |-> f.cred,
                                 data |-> data, doc |-> r.doc]})
                  /\ out' = out
    /\ UNCHANGED <<variant, users, posts, postSeq, likeAcks, clients>>

\* createPost resumed: the store has performed insertOne
CreatePostInsertOne ==
  \E f \in InFlight("createPost.insertOne"), author \in BOOLEAN :
    /\ LET r == createPost_insertOne(posts, postSeq, f.doc)
       IN /\ posts' = r.posts
          /\ postSeq' = postSeq + 1
          /\ IF r.done THEN Return(f, "createPost", r.resp, FALSE, author)
             ELSE /\ Resume(f, {[pc |-> "createPost.findOne", cred |-> f.cred,
                                 data |-> f.data, insertedId |-> r.insertedId]})
                  /\ out' = out
    /\ UNCHANGED <<variant, users, likeAcks, clients, clock>>

\* createPost resumed: findOne of the inserted id, and the envelope
CreatePostFindOne ==
  \E f \in InFlight("createPost.findOne"), author \in BOOLEAN :
    /\ Return(f, "createPost", createPost_findOne(posts, f.insertedId), FALSE, author)
    /\ UNCHANGED <<variant, users, posts, postSeq, likeAcks, clients, clock>>

DeletePost ==
  \E f \in InFlight("resolver"), id \in PostIds, author \in BOOLEAN :
    /\ LET r == deletePost(variant, Req(f.cred), id, posts)
       IN /\ posts' = r.posts
          /\ Return(f, "deletePost", r.resp, FALSE, author)
    /\ UNCHANGED <<variant, users, postSeq, likeAcks, clients, clock>>

Succeeded(resp) ==
  resp.kind = "data" /\ Has(resp.value, "success") /\ resp.value.success

LikePost ==
  \E f \in InFlight("resolver"), id \in PostIds, author \in BOOLEAN :
    /\ LET r == likePost(variant, Req(f.cred), id, posts)
       IN /\ r.posts = posts \/ \A d \in posts : d._id = id => d.likes < MaxLikes
          /\ posts' = r.posts
          /\ likeAcks' = IF Succeeded(r.resp) THEN [likeAcks EXCEPT ![id] = @ + 1]
                         ELSE likeAcks
          /\ Return(f, "likePost", r.resp, FALSE, author)
    /\ UNCHANGED <<variant, users, postSeq, clients, clock>>

UpdatePost ==
  \E f \in InFlight("resolver"), id \in PostIds, data \in PostData, author \in BOOLEAN :
    /\ LET r == updatePost(variant, Req(f.cred), id, data, posts)
       IN /\ posts' = r.posts
          /\ Return(f, "updatePost", r.resp, FALSE, author)
    /\ UNCHANGED <<variant, users, postSeq, likeAcks, clients, clock>>

\* signUp to its await on bcrypt.hash (after findOne)
SignUp ==
  \E f \in InFlight("resolver"), name \in UserNames, pw \in Passwords :
    /\ LET r == signUp_findOne(users, name)
           data == [userName |-> name, password |-> pw]
       IN /\ r.done \/ Len(users) + Cardinality(InFlight("signUp.insertOne")) < MaxUsers
          /\ IF r.done
             THEN Resume(f, {}) /\ out' = Step("signUp", r.resp)
             ELSE /\ Resume(f, {[pc |-> "signUp.insertOne", cred |-> f.cred, data |-> data]})
                  /\ out' = out
    /\ UNCHANGED <<variant, users, posts, postSeq, likeAcks, clients, clock>>

\* signUp resumed: the hash, insertOne and the token
SignUpInsertOne ==
  \E f \in InFlight("signUp.insertOne") :
    /\ LET r == signUp_insertOne(variant, users, f.data)
       IN /\ users' = r.users
          /\ out' = Step("signUp", r.resp)
    /\ Resume(f, {})
    /\ UNCHANGED <<variant, posts, postSeq, likeAcks, clients, clock>>

SignIn ==
  \E f \in InFlight("resolver"), name \in UserNames, pw \in Passwords :
    /\ Resume(f, {})
    /\ out' = Step("signIn", signIn(variant, users, [userName |-> name, password |-> pw]))
    /\ UNCHANGED <<variant, users, posts, postSeq, likeAcks, clients, clock>>

\* ----------------------------------------------------- specifications
\* The whole server, from an empty store
Init ==
  /\ variant \in Variants
  /\ users = <<>>
  /\ posts = {}
  /\ postSeq = 0
  /\ flight = EmptyBag
  /\ out = Step("start", Nothing)
  /\ likeAcks = [i \in PostIds |-> 0]
  /\ clients = 0
  /\ clock = 0

Next ==
  \/ Rejected
  \/ Context
  \/ CurrentUser
  \/ Post
  \/ Posts
  \/ PostAuthorField
  \/ Tick
  \/ CreatePost
  \/ CreatePostInsertOne
  \/ CreatePostFindOne
  \/ DeletePost
  \/ LikePost
  \/ UpdatePost
  \/ SignUp
  \/ SignUpInsertOne
  \/ SignIn

Spec == Init /\ [][Next]_vars

\* The account resolvers (signUp, signIn, currentUser), which never touch posts
NextAuth ==
  \/ Rejected
  \/ Context
  \/ CurrentUser
  \/ SignUp
  \/ SignUpInsertOne
  \/ SignIn

SpecAuth == Init /\ [][NextAuth]_vars

\* The post mutations, which never write users, over a store that holds the
\* accounts of two earlier signUp calls
SeedUsers(v) ==
  LET one == signUp_insertOne(v, <<>>, [userName |-> "ann", password |-> "pw1"]).users
  IN signUp_insertOne(v, one, [userName |-> "bob", password |-> "pw2"]).users

InitPosts ==
  /\ variant \in Variants
  /\ users = SeedUsers(variant)
  /\ posts = {}
  /\ postSeq = 0
  /\ flight = EmptyBag
  /\ out = Step("start", Nothing)
  /\ likeAcks = [i \in PostIds |-> 0]
  /\ clients = 0
  /\ clock = 0

NextPosts ==
  \/ Rejected
  \/ Context
  \/ PostAuthorField
  \/ Tick
  \/ CreatePost
  \/ CreatePostInsertOne
  \/ CreatePostFindOne
  \/ DeletePost
  \/ LikePost
  \/ UpdatePost

SpecPosts == InitPosts /\ [][NextPosts]_vars

\* The queries, which write nothing, over a store that holds two accounts and
\* the posts of two earlier createPost calls
SeedPosts(first, second) ==
  LET one == insertOnePost({}, 0, NewPost([title |-> "T1", content |-> "C1"], 1, first, first)).posts
  IN insertOnePost(one, 1, NewPost([title |-> "T2"], 2, second, second)).posts

InitQueries ==
  /\ variant \in Variants
  /\ users = SeedUsers(variant)
  /\ posts \in {SeedPosts(first, second) : first, second \in 0..MaxClock}
  /\ postSeq = 2
  /\ flight = EmptyBag
  /\ out = Step("start", Nothing)
  /\ likeAcks = [i \in PostIds |-> 0]
  /\ clients = 0
  /\ clock = MaxClock

NextQueries ==
  \/ Rejected
  \/ Context
  \/ CurrentUser
  \/ Post
  \/ Posts
  \/ PostAuthorField

SpecQueries == InitQueries /\ [][NextQueries]_vars

\* Accounts and their posts: signUp and createPost from an empty store
NextAuthors ==
  \/ Rejected
  \/ Context
  \/ SignUp
  \/ SignUpInsertOne
  \/ Tick
  \/ CreatePost
  \/ CreatePostInsertOne
  \/ CreatePostFindOne
  \/ PostAuthorField
  \/ DeletePost

SpecAuthors == Init /\ [][NextAuthors]_vars

\* ------------------------------------------------------------- claims
\* The account a credential stands for: 0 unless it is a token that verifies
Bearer(cred) ==
  LET v == jwtVerify(cred, JWT_SECRET)
  IN IF v.threw THEN 0
     ELSE IF Has(v.value, "userId") THEN v.value.userId
     ELSE IF Has(v.value, "id") THEN v.value.id ELSE 0

\* A request without an authenticated identity
NoIdentity(cred) == Bearer(cred) = 0

PostMutations == {"createPost", "updatePost", "deletePost", "likePost"}
Mutations == PostMutations \cup {"signUp", "signIn"}

\* The requests that reach the resolvers in the current state
Callers == {c \in Credentials(variant, users) : Admitted(c)}

Stored(id) == \E d \in posts : d._id = id

\* C1: a createPost, updatePost, deletePost or likePost call without an
\* authenticated identity returns exactly {success: false, message: "User not
\* found!"}, issues no store call and leaves posts as it was, in every variant.
C1_GateWithoutIdentity ==
  \A cred \in Callers : NoIdentity(cred) =>
    /\ \A data \in PostData :
         LET r == createPost(variant, Req(cred), data, clock, clock)
         IN r.done /\ r.resp = Gate /\ r.calls = 0
    /\ \A id \in PostIds, data \in PostData :
         LET r == updatePost(variant, Req(cred), id, data, posts)
         IN r.resp = Gate /\ r.calls = 0 /\ r.posts = posts
    /\ \A id \in PostIds :
         LET r == deletePost(variant, Req(cred), id, posts)
         IN r.resp = Gate /\ r.calls = 0 /\ r.posts = posts
    /\ \A id \in PostIds :
         LET r == likePost(variant, Req(cred), id, posts)
         IN r.resp = Gate /\ r.calls = 0 /\ r.posts = posts

\* C2: every likePost that returns success: true adds exactly 1 to the stored
\* likes of its post and changes nothing else, a likePost that does not succeed
\* changes nothing, and under every interleaving of the store steps the stored
\* likes of a post are its initial likes (0) plus the number of likePost calls
\* on it that returned success: true.
C2_NoLostLikes ==
  /\ \A d \in posts : d.likes = likeAcks[d._id]
  /\ \A cred \in Callers, id \in PostIds :
       LET r == likePost(variant, Req(cred), id, posts)
       IN IF Succeeded(r.resp)
          THEN \E d \in posts :
                 /\ d._id = id
                 /\ r.posts = (posts \ {d}) \cup {[d EXCEPT !.likes = d.likes + 1]}
          ELSE r.posts = posts

\* C2 witness: two likePost calls on one post were acknowledged and counted
C2_Witness ==
  /\ out.op = "likePost" /\ Succeeded(out.resp)
  /\ \E d \in posts : d.likes = 2 /\ likeAcks[d._id] = 2

\* C3: a createPost with a valid identity returns the post with likes = 0,
\* author = the caller, success = true, "Post created successfully!" and the
\* title and content it was given, and post(id) on the returned id answers the
\* same title and content.  Stated of every createPost that has inserted
\* its document and is about to answer.
C3_CreatePostAnswer ==
  \A f \in InFlight("createPost.findOne") :
    LET r == createPost_findOne(posts, f.insertedId)
    IN /\ r.kind = "data"
       /\ Has(r.value, "likes") /\ r.value.likes = 0
       /\ r.value.author = Bearer(f.cred)
       /\ r.value.success = TRUE
       /\ r.value.message = "Post created successfully!"
       /\ Project(r.value, {"title", "content"}) = f.data
       /\ LET q == post(posts, r.value.id).resp
          IN q.kind = "data"
             /\ Project(q.value, {"title", "content"}) = Project(r.value, {"title", "content"})

\* C4: deletePost with a valid identity on an id that matches no stored post
\* returns {success: false, message: "Post does not exist!"} and leaves posts
\* unchanged; on an existing id it removes exactly that post and returns
\* {success: true, message: "Post delete successfully!"}.
C4_DeletePost ==
  \A cred \in Callers, id \in PostIds : ~NoIdentity(cred) =>
    LET r == deletePost(variant, Req(cred), id, posts)
    IN IF Stored(id)
       THEN /\ r.resp = Data([success |-> TRUE, message |-> "Post delete successfully!"])
            /\ r.posts = {d \in posts : d._id # id}
            /\ Cardinality(r.posts) = Cardinality(posts) - 1
       ELSE /\ r.resp = Data([success |-> FALSE, message |-> "Post does not exist!"])
            /\ r.posts = posts

\* C4 witness: a deletePost has removed one post of two, so that the id it
\* removed now matches no stored post and the other id still does
C4_Witness ==
  /\ out = Step("deletePost", Data([success |-> TRUE, message |-> "Post delete successfully!"]))
  /\ Cardinality(posts) = 1 /\ postSeq = 2

UsernameExists == Data([success |-> FALSE, message |-> "Username already exists!"])

\* C5: signUp with a userName that already has an account answers {success:
\* false, message: "Username already exists!"} with no token, ends there, and
\* the step that gives this answer leaves users (and the pending calls) as
\* they were.
C5_SignUpExistingName ==
  [][/\ \A name \in UserNames :
          (\E i \in 1..Len(users) : users[i].userName = name) =>
             signUp_findOne(users, name) = [done |-> TRUE, resp |-> UsernameExists]
     /\ (/\ out' # out \/ BagCardinality(flight') < BagCardinality(flight)
         /\ out'.op = "signUp" /\ out'.resp = UsernameExists) =>
          /\ users' = users
          /\ \E f \in InFlight("resolver") : flight' = flight (-) SetToBag({f})]_vars

\* C5 witness: a signUp was refused for a userName that has its one account
C5_Witness ==
  /\ out = Step("signUp", UsernameExists)
  /\ Len(users) = 1

\* C6: for every account signUp created, signIn with its userName and its
\* password returns success: true with a token, and signIn with its userName
\* and any other password returns {success: false, message: "Invalid username
\* or password!"} with no token.
C6_SignIn ==
  \A i \in 1..Len(users), pw \in Passwords :
    LET r == signIn(variant, users, [userName |-> users[i].userName, password |-> pw])
    IN IF bcryptCompare(pw, users[i].password)
       THEN r.kind = "data" /\ r.value.success = TRUE /\ Has(r.value, "token")
       ELSE r = Data([success |-> FALSE, message |-> "Invalid username or password!"])

\* C7: whatever its outcome, a mutation answers with an envelope that carries
\* a success flag and a message: never an empty result, never a raw error.
C7_EnvelopeAlways ==
  out.op \in Mutations =>
    /\ out.resp.kind = "data"
    /\ Has(out.resp.value, "success")
    /\ Has(out.resp.value, "message")

\* C8: identity resolution never raises: a token that verifies gives the
\* identifier it encodes, a missing, forged or expired credential gives no
\* identity, and the request goes on to the resolvers either way.
C8_ResolutionNeverRaises ==
  /\ out.resp # Unauthorized
  /\ \A cred \in Credentials(variant, users) :
       /\ Admitted(cred)
       /\ IF variant = "legacy"
          THEN LET u == getUser(Req(cred))
               IN ~u.threw /\ (~NoIdentity(cred) => u.value.userId = Bearer(cred))
          ELSE IF NoIdentity(cred) THEN Req(cred).user = Undefined
               ELSE Req(cred).user.id = Bearer(cred)

\* C9: currentUser fails with the query error "Invalid user id!" exactly when
\* the request has no identity or the identity's account is not in users;
\* otherwise it returns that account's id and userName.
C9_CurrentUser ==
  \A cred \in Callers :
    LET r == currentUser(variant, Req(cred), users).resp
        account == findOneUserById(users, Bearer(cred))
    IN IF NoIdentity(cred) \/ account = Null
       THEN r = Thrown("Invalid user id!")
       ELSE r = Data([id |-> account._id, userName |-> account.userName])

\* C10: the envelope of a successful likePost carries the likes the post has
\* in the store after this call's increment, never the value before it.
C10_LikeReturnsUpdated ==
  \A cred \in Callers, id \in PostIds :
    LET r == likePost(variant, Req(cred), id, posts)
    IN Succeeded(r.resp) =>
         \E d \in r.posts : d._id = r.resp.value.id /\ d.likes = r.resp.value.likes

\* C11: in every variant that exposes updatePost (its schema declares it),
\* a call with a valid identity on a stored post overwrites exactly the
\* title/content it is given, leaves that post's likes, author and createdAt
\* and every other post as they were, and answers the updated fields with
\* success: true and "Post updated successfully!"; on an id that matches no
\* post it answers {success: false, message: "Post does not exist!"} and
\* changes nothing.
C11_UpdatePost ==
  \A cred \in Callers, id \in PostIds, data \in PostData :
    (Exposes(variant, "updatePost") /\ ~NoIdentity(cred)) =>
      LET r == updatePost(variant, Req(cred), id, data, posts)
      IN IF Stored(id)
         THEN LET d == findOnePostById(posts, id)
                  e == findOnePostById(r.posts, id)
              IN /\ e # Null
                 /\ r.posts \ {e} = posts \ {d}
                 /\ \A f \in DOMAIN data : e[f] = data[f]
                 /\ \A f \in (DOMAIN d) \ (DOMAIN data) : f \in DOMAIN e /\ e[f] = d[f]
                 /\ e.likes = d.likes /\ e.author = d.author /\ e.createdAt = d.createdAt
                 /\ r.resp = Data(Spread(e, [id |-> id, success |-> TRUE,
                                             message |-> "Post updated successfully!"]))
         ELSE /\ r.resp = Data([success |-> FALSE, message |-> "Post does not exist!"])
              /\ r.posts = posts

\* C12: userName is unique among accounts: the users collection never holds
\* two accounts with one userName, whatever the interleaving of signUp calls.
C12_UniqueUserName ==
  \A i, j \in 1..Len(users) : users[i].userName = users[j].userName => i = j

\* C13: the author of every stored post is the _id of an account in users
\* (so it was one when createPost inserted the post: accounts are never removed).
C13_AuthorExists ==
  \A d \in posts : findOneUserById(users, d.author) # Null

\* C13 witness: createPost has answered with the post it inserted, whose author
\* is the second account, signed up before it
C13_Witness ==
  /\ out.op = "createPost" /\ Succeeded(out.resp)
  /\ Len(users) = 2
  /\ \E d \in posts : d._id = out.resp.value.id /\ d.author = users[2]._id

\* C14: the store connection is released by the end of the request that opened
\* it: whenever no request is in flight, no store connection is open.
C14_ConnectionsReleased ==
  BagCardinality(flight) = 0 => clients = 0

====
